---- MODULE Spec2Model ----
(***************************************************************************)
(* Model of create_appliance.py: the appliance-build pipeline that turns a *)
(* root-filesystem payload into a bootable disk image.                     *)
(*                                                                         *)
(* Text (the piped output of a guest script) is a sequence of one-         *)
(* character strings, so that strip() and split() are modelled by what     *)
(* they do.  Each build is a process p \in Procs; the file system and the  *)
(* host are shared.                                                       *)
(***************************************************************************)
EXTENDS Integers, Sequences, FiniteSets, TLC

VARIABLES
    pc,           \* p -> control position inside create_appliance / __main__
    args,         \* p -> parsed command line (argparse namespace)
    temp_file,    \* p -> working-disk path (create_appliance: temp_file)
    input_type,   \* p -> probe text returned by file_type(), lower-cased
    make_tar_cmd, \* p -> create_disk: make_tar_cmd ("" when none)
    mbr_path,     \* p -> install_bootloader: mbr_path
    bootinfo,     \* p -> (uuid, vmlinuz, initrd) returned by get_boot_information
    err,          \* p -> message of the exception that reached __main__
    exit_status,  \* p -> process exit status (-1 while running)
    calls,        \* p -> log of the external tools the build has invoked
    fsops,        \* p -> log of the file-system calls made on the working disk
    files,        \* path -> disk image stored there, or NoFile
    host,         \* the build host: payload, installed tools, MBR files
    output_1,     \* piped output handed to the boot-information parser
    infos         \* what the parser made of output_1

vars == <<pc, args, temp_file, input_type, make_tar_cmd, mbr_path, bootinfo,
          err, exit_status, calls, fsops, files, host, output_1, infos>>

\* Longest piped output enumerated for the boot-information parser.
MaxLen == 7

-----------------------------------------------------------------------------
(* Text helpers: Python's str.strip() and str.split('\n').                 *)

NL == "\n"
SP == " "
Whitespace == {NL, SP}

BSeq(S, n) == UNION {[1..k -> S] : k \in 0..n}

RECURSIVE lstrip(_)
lstrip(s) ==
    IF s = <<>> THEN s
    ELSE IF Head(s) \in Whitespace THEN lstrip(Tail(s)) ELSE s

RECURSIVE rstrip(_)
rstrip(s) ==
    IF s = <<>> THEN s
    ELSE IF s[Len(s)] \in Whitespace THEN rstrip(SubSeq(s, 1, Len(s) - 1)) ELSE s

strip(s) == rstrip(lstrip(s))

\* s.split(sep): never the empty list; "" splits to [""].
RECURSIVE split(_, _)
split(s, sep) ==
    IF \A i \in 1..Len(s) : s[i] # sep THEN <<s>>
    ELSE LET i == CHOOSE j \in 1..Len(s) :
                      s[j] = sep /\ \A k \in 1..(j - 1) : s[k] # sep
         IN <<SubSeq(s, 1, i - 1)>> \o split(SubSeq(s, i + 1, Len(s)), sep)

-----------------------------------------------------------------------------
(* get_boot_information, lines 184-196: the parse of the piped output.     *)

BootOk(uuid, vmlinuz, initrd) ==
    [ok |-> TRUE, val |-> <<uuid, vmlinuz, initrd>>, err |-> "none"]

BootErr ==
    [ok |-> FALSE, val |-> <<>>,
     err |-> "Invalid boot information (missing kernel ?)"]

ParseAlwaysFallback(output) ==
    LET l == split(strip(output), NL)
    IN IF Len(l) = 4 THEN BootOk(l[1], l[2], l[4])
       ELSE IF Len(l) = 3 THEN BootOk(l[1], l[2], l[3])
       ELSE BootErr

parse_boot_information(output) ==
    LET l == split(strip(output), NL)
    IN IF Len(l) = 4
       THEN IF l[3] # <<>> THEN BootOk(l[1], l[2], l[3])
                           ELSE BootOk(l[1], l[2], l[4])
       ELSE IF Len(l) = 3 THEN BootOk(l[1], l[2], l[3])   \* 3-way unpack
       ELSE BootErr                                       \* ValueError caught

-----------------------------------------------------------------------------
(* Values.                                                                 *)

Procs == {1, 2}

NoneVal == "<None>"          \* Python's None (an option that was not given)

\* Order with fstab generation ahead of the bootloader installation.
OrderFstabBeforeInstall ==
    <<"file_type", "virt_make_fs", "tar_in", "find_mbr",
      "get_boot_information", "generate_fstab", "install_script", "export">>

\* Order with the disk formatted before the payload is probed.
OrderFormatFirst ==
    <<"virt_make_fs", "file_type", "tar_in", "find_mbr",
      "get_boot_information", "install_script", "generate_fstab", "export">>

\* The order in which create_disk, install_bootloader and create_appliance
\* run their steps (lines 246-292, 210-243, 308-325).
Order ==
    <<"file_type", "virt_make_fs", "tar_in", "find_mbr",
      "get_boot_information", "install_script", "generate_fstab", "export">>

IndexOf(step) == CHOOSE i \in 1..Len(Order) : Order[i] = step

next_step(step) ==
    IF IndexOf(step) < Len(Order) THEN Order[IndexOf(step) + 1] ELSE "export"

\* str.lower() on the texts the model uses.
Lower(s) ==
    CASE s = "QCOW2" -> "qcow2"
      [] s = "RAW" -> "raw"
      [] s = "XZ compressed data" -> "xz compressed data"
      [] s = "POSIX tar archive (GNU)" -> "posix tar archive (gnu)"
      [] OTHER -> s

\* os.path.abspath: a relative path is joined to the working directory.
abspath(path) ==
    CASE path = "my/mbr.bin" -> "/cwd/my/mbr.bin"
      [] OTHER -> path

\* to_unicode, lines 51-70: text stays the text it was.
to_unicode(obj) == obj

\* `needle in text' for a probe text given as its comma-separated parts;
\* the part  was "directory.tar"  (a gzip header's stored file name)
\* contains the word directory.
Sub(needle, part) ==
    \/ part = needle
    \/ needle = "directory" /\ part = "was \"directory.tar\""

In(needle, text) == \E i \in 1..Len(text) : Sub(needle, text[i])

-----------------------------------------------------------------------------
(* Disk images and guest scripts.                                          *)

NoFile ==
    [exists |-> FALSE, by |-> 0, fmt |-> "", fs |-> "", uuid |-> <<>>,
     boot |-> {}, mbr |-> "", cfg |-> <<>>, sector |-> "",
     extlinux |-> FALSE, bootable |-> FALSE, fstab |-> <<>>]

\* What virt-make-fs --partition --type fs --format qcow2 leaves at the path.
EmptyDisk(p, fs, uuid) ==
    [NoFile EXCEPT !.exists = TRUE, !.by = p, !.fmt = "qcow2", !.fs = fs,
                   !.uuid = uuid]

Directive(op, path, arg) == [op |-> op, path |-> path, arg |-> arg]

\* run_guestfish_script, lines 135-138: the preamble put before the script.
Preamble(mount) ==
    IF mount THEN <<Directive("run", "", <<>>), Directive("mount", "/dev/sda1", <<>>)>>
             ELSE <<Directive("run", "", <<>>)>>

\* One guestfish directive applied to the disk.
Exec(d, disk) ==
    CASE d.op = "upload" -> [disk EXCEPT !.mbr = d.arg]
      [] d.op = "write" /\ d.path = "/boot/syslinux.cfg" ->
             [disk EXCEPT !.cfg = <<d.arg>>]
      [] d.op = "write-append" /\ d.path = "/boot/syslinux.cfg" ->
             [disk EXCEPT !.cfg = Append(@, d.arg)]
      [] d.op = "write" /\ d.path = "/etc/fstab" ->
             [disk EXCEPT !.fstab = <<d.arg>>]
      [] d.op = "write-append" /\ d.path = "/etc/fstab" ->
             [disk EXCEPT !.fstab = Append(@, d.arg)]
      [] d.op = "copy-file-to-device" -> [disk EXCEPT !.sector = disk.mbr]
      [] d.op = "extlinux" -> [disk EXCEPT !.extlinux = TRUE]
      [] d.op = "part-set-bootable" -> [disk EXCEPT !.bootable = TRUE]
      [] OTHER -> disk

\* The first k directives of a script applied in order.
RECURSIVE RunPrefix(_, _, _)
RunPrefix(disk, script, k) ==
    IF k = 0 THEN disk
    ELSE Exec(script[k], RunPrefix(disk, script, k - 1))

\* get_boot_information, lines 177-181: what each query prints.  A query
\* that matches nothing prints no line (grep | head print nothing).
QueryLine(present, name) == IF present THEN name \o <<NL>> ELSE <<>>

script_1_output(disk) ==
    QueryLine(disk.uuid # <<>>, disk.uuid)
      \o QueryLine("k" \in disk.boot, <<"k">>)
      \o QueryLine("i" \in disk.boot, <<"i">>)
      \o QueryLine("f" \in disk.boot, <<"f">>)

FstabEntry(uuid, fs) == <<"UUID=", uuid, "/", fs, "defaults", "0", "1">>

Unconfigured == <<"# UNCONFIGURED FSTAB FOR BASE SYSTEM">>

\* generate_fstab with its first write turned into an append.
FstabAppendOnly(uuid, filesystem_type) ==
    <<Directive("write-append", "/etc/fstab", <<"# /etc/fstab: static file system information.">>),
      Directive("write-append", "/etc/fstab", <<"# Generated by kameleon-helpers.">>),
      Directive("write-append", "/etc/fstab", FstabEntry(uuid, filesystem_type))>>

\* generate_fstab, lines 202-206.
fstab_script(uuid, filesystem_type) ==
    <<Directive("write", "/etc/fstab", <<"# /etc/fstab: static file system information.">>),
      Directive("write-append", "/etc/fstab", <<"# Generated by kameleon-helpers.">>),
      Directive("write-append", "/etc/fstab", FstabEntry(uuid, filesystem_type))>>

\* install_bootloader, lines 218-241 (the echo lines print progress only).
install_script(path, vmlinuz, initrd, uuid, append) ==
    <<Directive("upload", "/boot/mbr.bin", path),
      Directive("write", "/boot/syslinux.cfg", <<"DEFAULT linux">>),
      Directive("write-append", "/boot/syslinux.cfg", <<"LABEL linux">>),
      Directive("write-append", "/boot/syslinux.cfg", <<"SAY Booting the kernel">>),
      Directive("write-append", "/boot/syslinux.cfg", <<"KERNEL", vmlinuz>>),
      Directive("write-append", "/boot/syslinux.cfg", <<"INITRD", initrd>>),
      Directive("write-append", "/boot/syslinux.cfg", <<"APPEND", uuid, append>>),
      Directive("copy-file-to-device", "/dev/sda", <<>>),
      Directive("extlinux", "/boot", <<>>),
      Directive("part-set-bootable", "/dev/sda", <<>>),
      Directive("write", "/etc/fstab", Unconfigured)>>

-----------------------------------------------------------------------------
(* find_mbr, lines 158-172.                                                *)

search_paths ==
    <<"/usr/share/syslinux/mbr.bin",
      "/usr/lib/bios/syslinux/mbr.bin",
      "/usr/lib/syslinux/bios/mbr.bin",
      "/usr/lib/extlinux/mbr.bin",
      "/usr/lib/syslinux/mbr.bin",
      "/usr/lib/syslinux/mbr/mbr.bin",
      "/usr/lib/EXTLINUX/mbr.bin">>

MbrNotFound == "syslinux MBR not found"

\* find_mbr returning the last existing path instead of the first.
FindMbrLast(existing) ==
    IF \E i \in 1..Len(search_paths) : search_paths[i] \in existing
    THEN search_paths[CHOOSE i \in 1..Len(search_paths) :
                          /\ search_paths[i] \in existing
                          /\ \A j \in (i + 1)..Len(search_paths) :
                                 search_paths[j] \notin existing]
    ELSE MbrNotFound

\* The path find_mbr returns, or MbrNotFound when it raises.
find_mbr(existing) ==
    IF \E i \in 1..Len(search_paths) : search_paths[i] \in existing
    THEN search_paths[CHOOSE i \in 1..Len(search_paths) :
                          /\ search_paths[i] \in existing
                          /\ \A j \in 1..(i - 1) : search_paths[j] \notin existing]
    ELSE MbrNotFound

\* install_bootloader, line 212: mbr or find_mbr().
Truthy(x) == x # NoneVal /\ x # ""

\* The search paths find_mbr tests with op.exists, in order, up to the hit.
find_mbr_probes(existing) ==
    LET n == IF \E i \in 1..Len(search_paths) : search_paths[i] \in existing
             THEN CHOOSE i \in 1..Len(search_paths) :
                      /\ search_paths[i] \in existing
                      /\ \A j \in 1..(i - 1) : search_paths[j] \notin existing
             ELSE Len(search_paths)
    IN [i \in 1..n |-> [op |-> "exists", path |-> <<search_paths[i], "">>]]

\* `or' evaluates find_mbr() only when mbr is None or empty.
resolve_mbr(mbr, existing) ==
    IF Truthy(mbr) THEN [path |-> mbr, probes |-> <<>>]
    ELSE [path |-> find_mbr(existing), probes |-> find_mbr_probes(existing)]

-----------------------------------------------------------------------------
(* create_disk, lines 250-256 and 274-288: the import path.                *)

decompressor(text) ==
    IF In("xz compressed data", text) THEN "xzcat"
    ELSE IF In("bzip2 compressed data", text) THEN "bzcat"
    ELSE IF In("gzip compressed data", text) THEN "zcat"
    ELSE ""

\* The producer of the tar stream piped into tar-in ("" when the payload
\* path is handed to tar-in directly).
producer(text, cmd) == IF In("directory", text) THEN "tar" ELSE cmd

\* The producer that can read a payload of the given kind.
RightProducer(kind) ==
    CASE kind = "xz" -> "xzcat"
      [] kind = "bzip2" -> "bzcat"
      [] kind = "gzip" -> "zcat"
      [] kind = "directory" -> "tar"
      [] OTHER -> ""

-----------------------------------------------------------------------------
(* The build: __main__ and create_appliance.                               *)

LowerText(text) == [i \in DOMAIN text |-> Lower(text[i])]

NoBootInfo == <<<<>>, <<>>, <<>>>>

Call(tool, what, rc) == [tool |-> tool, what |-> what, rc |-> rc]

Rcs == {0, 1}

\* guestfish -a disk cannot succeed when no file is at the disk's path.
GuestRcs(path) == IF files[path].exists THEN Rcs ELSE {1}

\* which(command), lines 83-101: found on PATH, or ValueError.
WhichOutcomes == BOOLEAN

NotFound(tool) == <<"Command not found", tool>>
CalledProcessError(tool) == <<"CalledProcessError", tool>>

\* An exception reaches __main__ (lines 373-375): Error: <exc>, exit 1.
Fail(p, exc) ==
    /\ pc' = [pc EXCEPT ![p] = "failed"]
    /\ err' = [err EXCEPT ![p] = exc]
    /\ exit_status' = [exit_status EXCEPT ![p] = 1]

Goto(p, step) ==
    /\ pc' = [pc EXCEPT ![p] = step]
    /\ UNCHANGED <<err, exit_status>>

\* create_appliance returns and the interpreter exits with status 0.
Finish(p) ==
    /\ pc' = [pc EXCEPT ![p] = "done"]
    /\ exit_status' = [exit_status EXCEPT ![p] = 0]
    /\ UNCHANGED err

Logged(p, cs) == calls' = [calls EXCEPT ![p] = @ \o cs]

output_fmt(p) == Lower(args[p].format)

output_filename(p) == <<args[p].output, output_fmt(p)>>

\* create_appliance, lines 297-306: the temporary name is drawn here.
Start(p) ==
    /\ pc[p] = "start"
    /\ \E name \in host.names : temp_file' = [temp_file EXCEPT ![p] = <<name, "">>]
    /\ Goto(p, Order[1])
    /\ UNCHANGED <<args, input_type, make_tar_cmd, mbr_path, bootinfo, calls,
                   fsops, files, host, output_1, infos>>

\* create_disk, lines 248-256: file_type(input_) and the decompressor.
FileType(p) ==
    /\ pc[p] = "file_type"
    /\ UNCHANGED <<args, temp_file, mbr_path, bootinfo, fsops, files, host,
                   output_1, infos>>
    /\ \/ /\ ~host.payload.exists
          /\ Fail(p, <<"cannot open (No such file or directory)">>)
          /\ UNCHANGED <<input_type, make_tar_cmd, calls>>
       \/ /\ host.payload.exists
          /\ Fail(p, NotFound("file"))
          /\ UNCHANGED <<input_type, make_tar_cmd, calls>>
       \/ /\ host.payload.exists
          /\ Logged(p, <<Call("file", "probe", 1)>>)
          /\ Fail(p, CalledProcessError("file"))
          /\ UNCHANGED <<input_type, make_tar_cmd>>
       \/ /\ host.payload.exists
          /\ Logged(p, <<Call("file", "probe", 0)>>)
          /\ input_type' = [input_type EXCEPT ![p] = LowerText(host.payload.text)]
          /\ \E found \in WhichOutcomes :
                IF decompressor(input_type'[p]) # "" /\ ~found
                THEN /\ Fail(p, NotFound(decompressor(input_type'[p])))
                     /\ UNCHANGED make_tar_cmd
                ELSE /\ make_tar_cmd' =
                            [make_tar_cmd EXCEPT ![p] = decompressor(input_type'[p])]
                     /\ Goto(p, next_step("file_type"))

\* create_disk, lines 260-271: the empty disk made by virt-make-fs.
VirtMakeFs(p) ==
    /\ pc[p] = "virt_make_fs"
    /\ UNCHANGED <<args, temp_file, input_type, make_tar_cmd, mbr_path,
                   bootinfo, fsops, host, output_1, infos>>
    /\ \/ /\ Fail(p, NotFound("virt-make-fs"))
          /\ UNCHANGED <<calls, files>>
       \/ /\ Logged(p, <<Call("virt-make-fs", "format", 1)>>)
          /\ Fail(p, CalledProcessError("virt-make-fs"))
          /\ \E left \in BOOLEAN :
                files' = IF left
                         THEN [files EXCEPT ![temp_file[p]] =
                                  EmptyDisk(p, args[p].filesystem, <<>>)]
                         ELSE files
       \/ /\ Logged(p, <<Call("virt-make-fs", "format", 0)>>)
          /\ \E uuid \in host.uuids :
                files' = [files EXCEPT ![temp_file[p]] =
                             EmptyDisk(p, args[p].filesystem, uuid)]
          /\ Goto(p, next_step("virt_make_fs"))

\* create_disk, lines 274-292: the payload imported with tar-in.  The
\* command is a shell pipeline, so its status is that of its last command.
TarIn(p) ==
    LET src == producer(input_type[p], make_tar_cmd[p])
        right == src = RightProducer(host.payload.kind)
        disk == temp_file[p]
    IN
    /\ pc[p] = "tar_in"
    /\ UNCHANGED <<args, temp_file, input_type, mbr_path, bootinfo, fsops,
                   host, output_1, infos>>
    /\ \/ /\ src = "tar"
          /\ Fail(p, NotFound("tar"))
          /\ UNCHANGED <<make_tar_cmd, calls, files>>
       \/ /\ make_tar_cmd' = [make_tar_cmd EXCEPT ![p] = src]
          /\ Fail(p, NotFound("guestfish"))
          /\ UNCHANGED <<calls, files>>
       \/ /\ src # ""
          /\ make_tar_cmd' = [make_tar_cmd EXCEPT ![p] = src]
          /\ \E prc \in (IF right THEN Rcs ELSE {1}), grc \in GuestRcs(disk) :
                /\ Logged(p, <<Call(src, "tar stream", prc),
                               Call("guestfish", "tar-in", grc)>>)
                /\ IF grc # 0
                   THEN /\ Fail(p, CalledProcessError("guestfish"))
                        /\ UNCHANGED files
                   ELSE /\ \E got \in (IF prc = 0 THEN {host.payload.boot}
                                                  ELSE {{}, host.payload.boot}) :
                              files' = [files EXCEPT ![disk].boot = got]
                        /\ Goto(p, next_step("tar_in"))
       \/ /\ src = ""
          /\ UNCHANGED make_tar_cmd
          /\ \E grc \in (IF right THEN GuestRcs(disk) ELSE {1}) :
                /\ Logged(p, <<Call("guestfish", "tar-in", grc)>>)
                /\ IF grc # 0
                   THEN /\ Fail(p, CalledProcessError("guestfish"))
                        /\ UNCHANGED files
                   ELSE /\ files' = [files EXCEPT ![disk].boot = host.payload.boot]
                        /\ Goto(p, next_step("tar_in"))

\* install_bootloader, lines 212-213: the MBR file to upload.
FindMbr(p) ==
    LET r == resolve_mbr(args[p].mbr, host.mbrs)
    IN
    /\ pc[p] = "find_mbr"
    /\ UNCHANGED <<args, temp_file, input_type, make_tar_cmd, bootinfo, calls,
                   files, host, output_1, infos>>
    /\ fsops' = [fsops EXCEPT ![p] = @ \o r.probes]
    /\ IF r.path = MbrNotFound
       THEN /\ Fail(p, <<MbrNotFound>>)
            /\ UNCHANGED mbr_path
       ELSE /\ mbr_path' = [mbr_path EXCEPT ![p] = abspath(to_unicode(r.path))]
            /\ Goto(p, next_step("find_mbr"))

\* get_boot_information, lines 175-196.
GetBootInformation(p) ==
    LET disk == temp_file[p]
        r == parse_boot_information(script_1_output(files[disk]))
    IN
    /\ pc[p] = "get_boot_information"
    /\ UNCHANGED <<args, temp_file, input_type, make_tar_cmd, mbr_path, fsops,
                   files, host, output_1, infos>>
    /\ \/ /\ Fail(p, NotFound("guestfish"))
          /\ UNCHANGED <<calls, bootinfo>>
       \/ /\ Logged(p, <<Call("guestfish", "boot query", 1)>>)
          /\ Fail(p, CalledProcessError("guestfish"))
          /\ UNCHANGED bootinfo
       \/ /\ 0 \in GuestRcs(disk)
          /\ Logged(p, <<Call("guestfish", "boot query", 0)>>)
          /\ IF r.ok
             THEN /\ bootinfo' = [bootinfo EXCEPT ![p] = r.val]
                  /\ Goto(p, next_step("get_boot_information"))
             ELSE /\ Fail(p, <<r.err>>)
                  /\ UNCHANGED bootinfo

\* run_guestfish_script on a script that writes to the disk: guestfish
\* stops at the first directive that fails and exits non-zero; what the
\* directives before it wrote stays on the disk.
RunScript(p, what, script, step) ==
    LET disk == temp_file[p]
        full == Preamble(TRUE) \o script
    IN
    \/ /\ Fail(p, NotFound("guestfish"))
       /\ UNCHANGED <<calls, files>>
    \/ \E k \in 0..Len(full) :
          /\ files[disk].exists \/ k = 0
          /\ files' = IF files[disk].exists
                      THEN [files EXCEPT ![disk] = RunPrefix(@, full, k)]
                      ELSE files
          /\ IF k < Len(full)
             THEN /\ Logged(p, <<Call("guestfish", what, 1)>>)
                  /\ Fail(p, CalledProcessError("guestfish"))
             ELSE /\ Logged(p, <<Call("guestfish", what, 0)>>)
                  /\ Goto(p, next_step(step))

\* install_bootloader, lines 218-243.
InstallScript(p) ==
    /\ pc[p] = "install_script"
    /\ UNCHANGED <<args, temp_file, input_type, make_tar_cmd, mbr_path,
                   bootinfo, fsops, host, output_1, infos>>
    /\ RunScript(p, "install",
                 install_script(mbr_path[p], bootinfo[p][2], bootinfo[p][3],
                                bootinfo[p][1], args[p].append),
                 "install_script")

\* create_appliance, line 318, and generate_fstab, lines 199-207.
GenerateFstab(p) ==
    /\ pc[p] = "generate_fstab"
    /\ UNCHANGED <<args, temp_file, input_type, make_tar_cmd, mbr_path,
                   bootinfo, fsops, host, output_1, infos>>
    /\ RunScript(p, "fstab",
                 fstab_script(bootinfo[p][1], args[p].filesystem),
                 "generate_fstab")

\* The export taken for a rename whatever the format.
IsRenameAlways(fmt) == TRUE

\* create_appliance, line 321: the export is a rename.
is_rename(fmt) == fmt = "qcow2"

\* create_appliance, lines 321-322: shutil.move of the working disk.
Rename(p) ==
    /\ pc[p] = "export"
    /\ is_rename(output_fmt(p))
    /\ UNCHANGED <<args, temp_file, input_type, make_tar_cmd, mbr_path,
                   bootinfo, calls, host, output_1, infos>>
    /\ \/ /\ Fail(p, <<"shutil.move failed">>)
          /\ UNCHANGED <<files, fsops>>
       \/ /\ files[temp_file[p]].exists
          /\ files' = [files EXCEPT ![output_filename(p)] = files[temp_file[p]],
                                    ![temp_file[p]] = NoFile]
          /\ fsops' = [fsops EXCEPT ![p] =
                          Append(@, [op |-> "move", path |-> temp_file[p]])]
          /\ Finish(p)

\* create_appliance, lines 323-324, and qemu_convert, lines 120-129.
Convert(p) ==
    /\ pc[p] = "export"
    /\ ~is_rename(output_fmt(p))
    /\ UNCHANGED <<args, temp_file, input_type, make_tar_cmd, mbr_path,
                   bootinfo, fsops, host, output_1, infos>>
    /\ \/ /\ Fail(p, NotFound("qemu-img"))
          /\ UNCHANGED <<calls, files>>
       \/ /\ Logged(p, <<Call("qemu-img", "convert", 1)>>)
          /\ Fail(p, CalledProcessError("qemu-img"))
          /\ UNCHANGED files
       \/ /\ files[temp_file[p]].exists
          /\ Logged(p, <<Call("qemu-img", "convert", 0)>>)
          /\ files' = [files EXCEPT ![output_filename(p)] =
                          [files[temp_file[p]] EXCEPT !.fmt = output_fmt(p)]]
          /\ Goto(p, "remove")

\* create_appliance, line 325: os.remove(temp_file) if it exists.
Remove(p) ==
    /\ pc[p] = "remove"
    /\ UNCHANGED <<args, temp_file, input_type, make_tar_cmd, mbr_path,
                   bootinfo, calls, host, output_1, infos>>
    /\ IF files[temp_file[p]].exists
       THEN \/ /\ files' = [files EXCEPT ![temp_file[p]] = NoFile]
               /\ fsops' = [fsops EXCEPT ![p] =
                               Append(@, [op |-> "remove", path |-> temp_file[p]])]
               /\ Finish(p)
            \/ /\ Fail(p, <<"os.remove failed">>)
               /\ UNCHANGED <<files, fsops>>
       ELSE /\ UNCHANGED <<files, fsops>>
            /\ Finish(p)

Next ==
    \E p \in Procs :
        \/ Start(p)
        \/ FileType(p)
        \/ VirtMakeFs(p)
        \/ TarIn(p)
        \/ FindMbr(p)
        \/ GetBootInformation(p)
        \/ InstallScript(p)
        \/ GenerateFstab(p)
        \/ Rename(p)
        \/ Convert(p)
        \/ Remove(p)

-----------------------------------------------------------------------------
(* Initial states.                                                         *)

TempNames == {".tmpA", ".tmpB"}

OutputOf(p) == IF p = 1 THEN "out1" ELSE "out2"

Paths ==
    {<<n, "">> : n \in TempNames}
        \cup {<<OutputOf(p), f>> : p \in Procs, f \in {"qcow2", "raw"}}

Args(p, formats, mbrs, filesystems) ==
    [format : formats, mbr : mbrs, filesystem : filesystems,
     output : {OutputOf(p)}, append : {"quiet"}]

Payload(kind, text, boot) ==
    [exists |-> TRUE, kind |-> kind, text |-> text, boot |-> boot]

MissingPayload == [exists |-> FALSE, kind |-> "", text |-> <<>>, boot |-> {}]

AllBoot == {"k", "i", "f"}

\* What file(1) prints for each kind of payload.
ProbedPayloads ==
    {Payload("xz", <<"XZ compressed data">>, AllBoot),
     Payload("bzip2", <<"bzip2 compressed data", "block size = 900k">>, AllBoot),
     Payload("gzip", <<"gzip compressed data", "from Unix">>, AllBoot),
     Payload("gzip", <<"gzip compressed data", "was \"directory.tar\"">>, AllBoot),
     Payload("tar", <<"POSIX tar archive (GNU)">>, AllBoot),
     Payload("directory", <<"directory">>, AllBoot)}

DirectoryPayloads == {Payload("directory", <<"directory">>, b) : b \in SUBSET AllBoot}

SomeMbrs ==
    {{}, {search_paths[3]}, {search_paths[2], search_paths[5]}}

AllMbrs == SUBSET {search_paths[i] : i \in 1..Len(search_paths)}

Hosts(payloads, mbrs, names, uuids) ==
    [payload : payloads, mbrs : mbrs, names : {names}, uuids : {uuids}]

Pending == [ok |-> FALSE, val |-> <<>>, err |-> "pending"]

\* The builds in `active' are about to run create_appliance.
InitWith(active, formats, mbrs, filesystems, hosts) ==
    /\ pc = [p \in Procs |-> IF p \in active THEN "start" ELSE "off"]
    /\ args \in [Procs -> UNION {Args(p, formats, mbrs, filesystems) : p \in Procs}]
    /\ \A p \in Procs : args[p].output = OutputOf(p)
    /\ \A p \in Procs \ active :
          args[p] = CHOOSE a \in Args(p, formats, mbrs, filesystems) : TRUE
    /\ temp_file = [p \in Procs |-> <<"", "">>]
    /\ input_type = [p \in Procs |-> <<>>]
    /\ make_tar_cmd = [p \in Procs |-> ""]
    /\ mbr_path = [p \in Procs |-> ""]
    /\ bootinfo = [p \in Procs |-> NoBootInfo]
    /\ err = [p \in Procs |-> <<>>]
    /\ exit_status = [p \in Procs |-> -1]
    /\ calls = [p \in Procs |-> <<>>]
    /\ fsops = [p \in Procs |-> <<>>]
    /\ files = [path \in Paths |-> NoFile]
    /\ host \in hosts
    /\ output_1 = <<>>
    /\ infos = Pending

\* One build; every kind of payload, format, MBR option and boot directory.
Init ==
    InitWith({1}, {"qcow2", "raw", "QCOW2"}, {NoneVal, "", "my/mbr.bin"},
             {"ext2", "ext4"},
             Hosts({MissingPayload} \cup ProbedPayloads \cup DirectoryPayloads,
                   SomeMbrs, {".tmpA"}, {<<"u">>}))

Spec == Init /\ [][Next]_vars

\* One build on every host the MBR search can meet.
InitMbr ==
    InitWith({1}, {"qcow2", "raw"}, {NoneVal, "", "my/mbr.bin", "/opt/mbr.bin"},
             {"ext2"},
             Hosts({Payload("directory", <<"directory">>, AllBoot)},
                   AllMbrs, {".tmpA"}, {<<"u">>}))

SpecMbr == InitMbr /\ [][Next]_vars

\* Two builds started in the same working directory.
InitConcurrent ==
    InitWith({1, 2}, {"qcow2", "raw"}, {"/opt/mbr.bin"}, {"ext2"},
             Hosts({Payload("directory", <<"directory">>, AllBoot)},
                   {{}}, TempNames, {<<"u">>}))

SpecConcurrent == InitConcurrent /\ [][Next]_vars

-----------------------------------------------------------------------------
(* The boot-information parser on every short piped output.                *)

Chars == {"a", "b", NL, SP}

InitBoot ==
    /\ pc = [p \in Procs |-> "off"]
    /\ args = [p \in Procs |-> CHOOSE a \in Args(p, {"qcow2"}, {NoneVal}, {"ext2"}) : TRUE]
    /\ temp_file = [p \in Procs |-> <<"", "">>]
    /\ input_type = [p \in Procs |-> <<>>]
    /\ make_tar_cmd = [p \in Procs |-> ""]
    /\ mbr_path = [p \in Procs |-> ""]
    /\ bootinfo = [p \in Procs |-> NoBootInfo]
    /\ err = [p \in Procs |-> <<>>]
    /\ exit_status = [p \in Procs |-> -1]
    /\ calls = [p \in Procs |-> <<>>]
    /\ fsops = [p \in Procs |-> <<>>]
    /\ files = [path \in Paths |-> NoFile]
    /\ host = [payload |-> MissingPayload, mbrs |-> {}, names |-> {".tmpA"},
               uuids |-> {<<"u">>}]
    /\ output_1 \in BSeq(Chars, MaxLen)
    /\ infos = Pending

\* get_boot_information, lines 184-196, applied to output_1.
ParseBoot ==
    /\ infos = Pending
    /\ infos' = parse_boot_information(output_1)
    /\ UNCHANGED <<pc, args, temp_file, input_type, make_tar_cmd, mbr_path,
                   bootinfo, err, exit_status, calls, fsops, files, host,
                   output_1>>

SpecBoot == InitBoot /\ [][ParseBoot]_vars

-----------------------------------------------------------------------------
(* Vocabulary of the properties.                                           *)

Running == {"file_type", "virt_make_fs", "tar_in", "find_mbr",
            "get_boot_information", "install_script", "generate_fstab",
            "export", "remove"}

\* The tool of each stage, in pipeline order.
Canon == <<"format", "tar-in", "boot query", "install", "fstab", "convert">>

IsStageCall(c) == \E i \in 1..Len(Canon) : Canon[i] = c.what

StageCalls(p) == SelectSeq(calls[p], IsStageCall)

HasCall(p, what) == \E i \in 1..Len(calls[p]) : calls[p][i].what = what

HasOkCall(p, what) ==
    \E i \in 1..Len(calls[p]) : calls[p][i].what = what /\ calls[p][i].rc = 0

IsDisposal(o) == o.op \in {"move", "remove"}

Disposals(p) == SelectSeq(fsops[p], IsDisposal)

IsProbe(o) == o.op = "exists"

\* The disk the build is working on, wherever it is now.
DiskNow(p) ==
    IF files[temp_file[p]].exists THEN files[temp_file[p]]
    ELSE files[output_filename(p)]

LastOf(seq) == seq[Len(seq)]

\* C1: the stage tools are invoked in the pipeline's order, each only after
\* the one before it exited 0, none twice and none skipped; a build is past
\* a stage only when that stage's tool has exited 0; and the UUID in the
\* generated fstab entry is the one get_boot_information returned to this
\* build.
C1_StrictStageOrder ==
    \A p \in Procs :
        LET sc == StageCalls(p)
        IN /\ Len(sc) <= Len(Canon)
           /\ \A i \in 1..Len(sc) :
                 /\ sc[i].what = Canon[i]
                 /\ i < Len(sc) => sc[i].rc = 0
           /\ pc[p] = "tar_in" => HasOkCall(p, "format") /\ Len(sc) = 1
           /\ pc[p] \in {"find_mbr", "get_boot_information"} =>
                 HasOkCall(p, "tar-in") /\ Len(sc) = 2
           /\ pc[p] = "install_script" => HasOkCall(p, "boot query") /\ Len(sc) = 3
           /\ pc[p] = "generate_fstab" => HasOkCall(p, "install") /\ Len(sc) = 4
           /\ pc[p] = "export" => HasOkCall(p, "fstab") /\ Len(sc) = 5
           /\ pc[p] = "remove" => HasOkCall(p, "convert")
           /\ pc[p] = "done" =>
                 /\ HasOkCall(p, "fstab")
                 /\ \A i \in 1..Len(sc) : sc[i].rc = 0
                 /\ Len(Disposals(p)) = 1
           /\ Disposals(p) # <<>> => HasOkCall(p, "fstab")
           /\ HasOkCall(p, "fstab") =>
                 /\ bootinfo[p] # NoBootInfo
                 /\ LastOf(DiskNow(p).fstab) =
                        FstabEntry(bootinfo[p][1], args[p].filesystem)

\* C1 witness: a build that ran every stage, converter included, to the end.
C1_Witness ==
    /\ pc[1] = "done"
    /\ Len(StageCalls(1)) = Len(Canon)
    /\ bootinfo[1][1] = <<"u">>

\* C2 (as claimed): once any external tool has exited non-zero the build is
\* Failed with exit status 1 and that call is the last one made; exit
\* status 0 belongs to builds that reached Done only.
C2_AnyToolFailureFailsBuild ==
    \A p \in Procs :
        /\ \A i \in 1..Len(calls[p]) :
              calls[p][i].rc # 0 =>
                 /\ pc[p] = "failed"
                 /\ exit_status[p] = 1
                 /\ \A j \in (i + 1)..Len(calls[p]) :
                       calls[p][j].what = "tar-in" /\ j = i + 1
        /\ exit_status[p] = 0 => pc[p] = "done"
        /\ pc[p] = "failed" => exit_status[p] = 1 /\ err[p] # <<>>

\* C3: the working disk is disposed of at most once, and exactly once in a
\* build that is Done; with the format qcow2 the disposal is a rename to
\* <output>.qcow2 and qemu-img is never invoked; with any other format
\* qemu-img has exited 0 before the disk is deleted; at Done nothing is
\* left at the working-disk path.
C3_DisposedExactlyOnce ==
    \A p \in Procs :
        LET d == Disposals(p)
        IN /\ Len(d) <= 1
           /\ output_fmt(p) = "qcow2" =>
                 /\ ~HasCall(p, "convert")
                 /\ \A i \in 1..Len(d) : d[i].op = "move"
                 /\ pc[p] = "done" => files[<<args[p].output, "qcow2">>].exists
           /\ output_fmt(p) # "qcow2" =>
                 /\ \A i \in 1..Len(d) : d[i].op = "remove"
                 /\ d # <<>> => HasOkCall(p, "convert")
                 /\ pc[p] = "done" =>
                       /\ HasOkCall(p, "convert")
                       /\ files[output_filename(p)].exists
                       /\ files[output_filename(p)].fmt = output_fmt(p)
           /\ pc[p] = "done" => Len(d) = 1 /\ ~files[temp_file[p]].exists

\* C3 witness: a raw build that converted, then deleted its working disk.
C3_Witness ==
    /\ pc[1] = "done"
    /\ output_fmt(1) = "raw"
    /\ Disposals(1) = <<[op |-> "remove", path |-> temp_file[1]]>>

-----------------------------------------------------------------------------
(* Lines of a text, counted without strip() and split().                   *)

NLs(s) == {i \in 1..Len(s) : s[i] = NL}

NthNL(s, j) == CHOOSE i \in NLs(s) : Cardinality({k \in NLs(s) : k < i}) = j - 1

\* The pieces of s between its newlines.
Pieces(s) ==
    LET n == Cardinality(NLs(s)) + 1
    IN [j \in 1..n |->
          SubSeq(s, IF j = 1 THEN 1 ELSE NthNL(s, j - 1) + 1,
                    IF j = n THEN Len(s) ELSE NthNL(s, j) - 1)]

\* The lines of a text as printed: each newline ends a line.
RawLines(s) ==
    IF s = <<>> THEN <<>>
    ELSE IF s[Len(s)] = NL THEN Pieces(SubSeq(s, 1, Len(s) - 1))
    ELSE Pieces(s)

Inked(s) == {i \in 1..Len(s) : s[i] \notin Whitespace}

\* The lines between the first and the last non-whitespace character.
StrippedLines(s) ==
    IF Inked(s) = {} THEN <<<<>>>>
    ELSE Pieces(SubSeq(s, CHOOSE i \in Inked(s) : \A k \in Inked(s) : i <= k,
                          CHOOSE i \in Inked(s) : \A k \in Inked(s) : k <= i))

\* What the claim says get_boot_information makes of the lines l.
ByLines(l) ==
    IF Len(l) = 4 /\ l[3] # <<>> THEN BootOk(l[1], l[2], l[3])
    ELSE IF Len(l) = 4 THEN BootOk(l[1], l[2], l[4])
    ELSE IF Len(l) = 3 THEN BootOk(l[1], l[2], l[3])
    ELSE BootErr

\* C4 (as claimed): the result follows the lines of the output as printed.
C4_ByPrintedLines == infos # Pending => infos = ByLines(RawLines(output_1))

\* C4 (amended): the result follows the lines left once leading and
\* trailing whitespace is stripped from the whole output: four lines with a
\* non-empty third give (line1, line2, line3), four with an empty third
\* give (line1, line2, line4), three are returned as they are, any other
\* number fails with the invalid-boot-information error.
C4_ByStrippedLines == infos # Pending => infos = ByLines(StrippedLines(output_1))

\* C4 witness: four lines, the third empty, the fourth returned as initrd.
C4_Witness ==
    /\ infos.ok
    /\ Len(StrippedLines(output_1)) = 4
    /\ StrippedLines(output_1)[3] = <<>>
    /\ infos.val[3] = StrippedLines(output_1)[4]
    /\ infos.val[3] # <<>>

-----------------------------------------------------------------------------

PastBootInfo(p) ==
    \/ pc[p] \in {"install_script", "generate_fstab", "export", "remove", "done"}
    \/ HasCall(p, "install")

\* C5 (as claimed): a build whose disk has no kernel or no UUID never gets
\* past boot-information resolution, never runs the install script, and
\* leaves no output file; the install script only ever gets the disk's own
\* UUID and kernel name.
C5_MissingKernelFailsBuild ==
    \A p \in Procs :
        /\ PastBootInfo(p) =>
              /\ bootinfo[p][1] # <<>>
              /\ bootinfo[p][1] = DiskNow(p).uuid
              /\ bootinfo[p][2] = <<"k">>
        /\ (host.payload.exists /\ "k" \notin host.payload.boot) =>
              /\ ~HasCall(p, "install")
              /\ \A f \in {"qcow2", "raw"} : ~files[<<args[p].output, f>>].exists

\* The tool that fed the tar stream to tar-in ("" when none did).
FedBy(p) ==
    IF \E i \in 1..Len(calls[p]) : calls[p][i].what = "tar stream"
    THEN calls[p][CHOOSE i \in 1..Len(calls[p]) : calls[p][i].what = "tar stream"].tool
    ELSE ""

\* C6 (as claimed): the import path follows the probe text: xz, bzip2 and
\* gzip texts are fed by xzcat, bzcat and zcat, a directory text by tar, and
\* any other text by nothing.
C6_ImportPathMatchesProbe ==
    \A p \in Procs :
        HasCall(p, "tar-in") =>
            LET t == input_type[p]
            IN /\ In("xz compressed data", t) => FedBy(p) = "xzcat"
               /\ In("bzip2 compressed data", t) => FedBy(p) = "bzcat"
               /\ In("gzip compressed data", t) => FedBy(p) = "zcat"
               /\ In("directory", t) => FedBy(p) = "tar"
               /\ (/\ ~In("xz compressed data", t)
                   /\ ~In("bzip2 compressed data", t)
                   /\ ~In("gzip compressed data", t)
                   /\ ~In("directory", t)) => FedBy(p) = ""

-----------------------------------------------------------------------------

PastFindMbr(p) ==
    pc[p] \in {"get_boot_information", "install_script", "generate_fstab",
               "export", "remove", "done"}

Override(p) == args[p].mbr # NoneVal /\ args[p].mbr # ""

Absolute(path) == IF path = "my/mbr.bin" THEN "/cwd/my/mbr.bin" ELSE path

\* C7: with an MBR override path the build uses that path and tests none
\* of the search paths; without one it uses the lowest-indexed search path
\* that exists, and fails with MbrNotFound exactly when none exists; a
\* build that failed with MbrNotFound has run neither the boot query nor
\* the install script.
C7_MbrResolution ==
    \A p \in Procs :
        /\ (Override(p) /\ (PastFindMbr(p) \/ pc[p] = "failed")) =>
              /\ SelectSeq(fsops[p], IsProbe) = <<>>
              /\ err[p] # <<MbrNotFound>>
        /\ (Override(p) /\ PastFindMbr(p)) => mbr_path[p] = Absolute(args[p].mbr)
        /\ (~Override(p) /\ PastFindMbr(p)) =>
              \E i \in 1..Len(search_paths) :
                 /\ mbr_path[p] = search_paths[i]
                 /\ search_paths[i] \in host.mbrs
                 /\ \A j \in 1..(i - 1) : search_paths[j] \notin host.mbrs
        /\ err[p] = <<MbrNotFound>> =>
              /\ ~Override(p)
              /\ \A i \in 1..Len(search_paths) : search_paths[i] \notin host.mbrs
              /\ ~HasCall(p, "boot query")
              /\ ~HasCall(p, "install")
        /\ (/\ ~Override(p)
            /\ \A i \in 1..Len(search_paths) : search_paths[i] \notin host.mbrs) =>
              /\ ~PastFindMbr(p)
              /\ pc[p] = "failed" /\ HasCall(p, "tar-in") /\ LastOf(calls[p]).rc = 0
                    => err[p] = <<MbrNotFound>>

\* C7 witness: no override, two search paths exist, the earlier one is used.
C7_Witness ==
    /\ args[1].mbr = NoneVal
    /\ host.mbrs = {search_paths[3], search_paths[6]}
    /\ PastFindMbr(1)
    /\ mbr_path[1] = search_paths[3]

\* C8 (as claimed): two builds that are under way at the same time never
\* hold the same working-disk path.
C8_NoSharedWorkingDisk ==
    \A p, q \in Procs :
        (p # q /\ pc[p] \in Running /\ pc[q] \in Running) =>
            temp_file[p] # temp_file[q]

-----------------------------------------------------------------------------

CallIndex(p, what) == CHOOSE i \in 1..Len(calls[p]) : calls[p][i].what = what

\* C9: when the install script has run, /etc/fstab holds the placeholder
\* only; once fstab generation has run, and in every build that is Done,
\* the file ends with the entry for the resolved UUID and the requested
\* filesystem type and holds no placeholder; the install script was run
\* before the fstab script.
C9_GeneratedFstabIsFinal ==
    \A p \in Procs :
        /\ pc[p] = "generate_fstab" => DiskNow(p).fstab = <<Unconfigured>>
        /\ pc[p] \in {"export", "remove", "done"} =>
              LET t == DiskNow(p).fstab
              IN /\ LastOf(t) = FstabEntry(bootinfo[p][1], args[p].filesystem)
                 /\ \A i \in 1..Len(t) : t[i] # Unconfigured
                 /\ Len(t) = 3
                 /\ HasOkCall(p, "install") /\ HasOkCall(p, "fstab")
                 /\ CallIndex(p, "install") < CallIndex(p, "fstab")

\* C9 witness: a finished ext4 build whose output ends with the entry.
C9_Witness ==
    /\ pc[1] = "done"
    /\ args[1].filesystem = "ext4"
    /\ LastOf(files[output_filename(1)].fstab) = FstabEntry(<<"u">>, "ext4")

EarlyErrors ==
    {<<"cannot open (No such file or directory)">>, NotFound("file"),
     CalledProcessError("file"), NotFound("xzcat"), NotFound("bzcat"),
     NotFound("zcat")}

\* C10: a build that failed on the payload's existence, on the probe or on
\* the lookup of the decompressor has not invoked the disk formatter and
\* has no working disk; a working disk exists only once the formatter has
\* been invoked, and the formatter is invoked only after the probe exited 0.
C10_ProbeBeforeFormat ==
    \A p \in Procs :
        /\ (pc[p] = "failed" /\ err[p] \in EarlyErrors) =>
              /\ ~HasCall(p, "format")
              /\ ~files[temp_file[p]].exists
        /\ (pc[p] \in Running \cup {"failed"} /\ files[temp_file[p]].exists) =>
              HasCall(p, "format")
        /\ HasCall(p, "format") =>
              /\ HasOkCall(p, "probe")
              /\ CallIndex(p, "probe") < CallIndex(p, "format")

\* C10 witness: the decompressor is missing and no disk was made.
C10_Witness ==
    /\ pc[1] = "failed"
    /\ err[1] = NotFound("zcat")
    /\ HasOkCall(1, "probe")
    /\ ~files[temp_file[1]].exists

====
